---- MODULE Spec2Model ----
(***************************************************************************)
(* StudyTracker (src/app.jsx): the progress tree, its mutation handlers    *)
(* and the Firestore sync of the App component.                            *)
(*                                                                         *)
(* A JS object is a function from its keys to its values, so a key that a  *)
(* JS object lacks is a key outside DOMAIN; reading a property of          *)
(* undefined is the TypeError the handlers can throw.  A UUID is the       *)
(* string "u" followed by the number of the randomUUID call that made it.  *)
(*                                                                         *)
(* The store is Firestore, outside the source: a listener is told the      *)
(* document as stored when it is opened and again whenever a write changes *)
(* the stored document; a write lands or is rejected some time after its   *)
(* setDoc, writes of one client in the order they were issued.  React runs *)
(* the Data Sync effect some time after the setUser that triggers it.      *)
(***************************************************************************)
EXTENDS Integers, Sequences, FiniteSets, TLC

VARIABLES
    authUser,       \* auth.currentUser: a uid or NoUser
    authCalls,      \* onAuthStateChanged callbacks awaiting getDoc(profileRef)
    onboarded,      \* uids whose settings/profile document has onboarded = true
    user,           \* useState user (its uid), NoUser for null
    loading,        \* useState loading
    setupStep,      \* useState setupStep
    subjects,       \* useState subjects: the in-memory tree
    effectPending,  \* `user` was set and the Data Sync effect has not re-run yet
    effectSub,      \* subscription ids held by the last effect run's cleanup
    subs,           \* live onSnapshot listeners: [id, uid, queue of snapshots]
    nextSub,        \* number of onSnapshot calls made so far
    docs,           \* the store: uid -> data/subjects document
    writes,         \* setDoc calls of saveData not yet resolved, oldest first
    nextId,         \* number of crypto.randomUUID() calls made so far
    nMut,           \* mutation requests issued so far
    nAuth,          \* auth state changes so far
    last,           \* the step just taken: what it read, computed and did
    calcIn,         \* calculateProgress alone: its argument
    calcOut,        \* calculateProgress alone: its result, -1 before the call
    twice,          \* toggleQuestion applied again to its own result: the first
                    \* tree, the arguments, the calls made and the tree so far
    run             \* a subject, a chapter and a sub-exercise made and its
                    \* questions toggled: the tree so far and the ids made

appVars  == <<authUser, authCalls, onboarded, user, loading, setupStep>>
syncVars == <<subjects, effectPending, effectSub, subs, nextSub, docs, writes>>
mutVars  == <<nextId, nMut, nAuth, last>>
calcVars == <<calcIn, calcOut, twice, run>>
vars     == <<appVars, syncVars, mutVars, calcVars>>

----------------------------------------------------------------------------
(* Bounds *)

\* mutation requests in one behaviour
MaxMut == 2
\* auth state changes in one behaviour
MaxAuth == 2
\* largest question count typed into a count input
MaxCount == 2
\* longest question list of a mixed chapter given to calculateProgress alone
MaxQ == 2
\* longest question list of a one-section chapter given to calculateProgress alone
\* and largest count of the sub-exercise made of a new chapter
MaxTotal == 40
\* questions of a list up to this length are toggled or completed in any
\* order, of a longer list from the first on
MaxAnyOrder == 4

----------------------------------------------------------------------------
(* Values *)

NoUser   == "none"
\* A signs in anonymously (no displayName), B through Google (displayName set)
Uids     == {"A", "B"}
HasDisplayName(u) == u = "B"

\* the optional subExId argument left out (undefined)
NoSubEx  == "undefined"
\* an id that no randomUUID call returned
Missing  == "missing"

Uuid(n)  == "u" \o ToString(n)

\* `q-${i+1}` for i = 0..: the positional question id
Qid(i)   == "q-" \o ToString(i)

\* a name is a sequence of characters; trim() strips the blanks at both ends
RECURSIVE TrimLeft(_)
TrimLeft(s) == IF s # <<>> /\ Head(s) = " " THEN TrimLeft(Tail(s)) ELSE s
RECURSIVE TrimRight(_)
TrimRight(s) ==
    IF s # <<>> /\ s[Len(s)] = " " THEN TrimRight(SubSeq(s, 1, Len(s) - 1)) ELSE s
Trim(s) == TrimRight(TrimLeft(s))

\* { ...obj, [k]: v }
Put(obj, k, v) == [x \in (DOMAIN obj) \cup {k} |-> IF x = k THEN v ELSE obj[x]]

\* array.map
SeqMap(f(_), s) == [i \in 1..Len(s) |-> f(s[i])]

\* array.filter(p).length
RECURSIVE CountIf(_, _)
CountIf(p(_), s) ==
    IF s = <<>> THEN 0
    ELSE (IF p(Head(s)) THEN 1 ELSE 0) + CountIf(p, Tail(s))

\* array.filter
RECURSIVE SeqFilter(_, _)
SeqFilter(p(_), s) ==
    IF s = <<>> THEN <<>>
    ELSE (IF p(Head(s)) THEN <<Head(s)>> ELSE <<>>) \o SeqFilter(p, Tail(s))

RECURSIVE SumOver(_, _)
SumOver(f(_), S) ==
    IF S = {} THEN 0
    ELSE LET x == CHOOSE y \in S : TRUE IN f(x) + SumOver(f, S \ {x})

----------------------------------------------------------------------------
(* Math.round((completedQs / totalQs) * 100), src/app.jsx:63, as the       *)
(* engine computes it: on IEEE 754 doubles, whose division and             *)
(* multiplication round to the nearest double, ties to even.  The 53-bit   *)
(* significand of a double is held in limbs:                               *)
(*   [top, f1, f2, f3, low, e] is                                          *)
(*   (top * 2^(36+low) + f1 * 2^(18+low) + f2 * 2^low + f3) * 2^e          *)
(* with f1, f2 < 2^18 and f3 < 2^low.                                      *)

\* bits of a limb
LimbBits == 18

RECURSIVE Pow2(_)
Pow2(k) == IF k = 0 THEN 1 ELSE 2 * Pow2(k - 1)

Limb == Pow2(LimbBits)

\* the least s with num * 2^s >= den
RECURSIVE ShiftTo(_, _)
ShiftTo(num, den) == IF num >= den THEN 0 ELSE 1 + ShiftTo(2 * num, den)

\* the limbs with 1 added to the last bit, the carry taken upwards
Increment(x) ==
    LET f3 == x.f3 + 1
        c3 == f3 \div Pow2(x.low)
        f2 == x.f2 + c3
        c2 == f2 \div Limb
        f1 == x.f1 + c2
        c1 == f1 \div Limb
    IN  [x EXCEPT !.f3 = f3 % Pow2(x.low), !.f2 = f2 % Limb, !.f1 = f1 % Limb,
                  !.top = x.top + c1]

\* x with its last `drop` bits rounded away: to nearest, ties to even; `sticky`
\* says that the exact value has non-zero bits below x
RoundAway(x, drop, sticky) ==
    LET kept  == x.f3 \div Pow2(drop)
        guard == (x.f3 \div Pow2(drop - 1)) % 2
        rest  == sticky \/ ((x.f3 % Pow2(drop - 1)) # 0)
        cut   == [x EXCEPT !.f3 = kept, !.low = x.low - drop, !.e = x.e + drop]
    IN  IF guard = 1 /\ (rest \/ (kept % 2) = 1) THEN Increment(cut) ELSE cut

\* the double num / den, for 0 < num <= den < 2^13
DoubleDiv(num, den) ==
    LET sh == ShiftTo(num, den)
        r0 == num * Pow2(sh) - den
        d1 == (r0 * Limb) \div den
        r1 == (r0 * Limb) % den
        d2 == (r1 * Limb) \div den
        r2 == (r1 * Limb) % den
        d3 == (r2 * Limb) \div den
        r3 == (r2 * Limb) % den
    IN  \* 1 + 54 bits of the quotient: 53 are kept, the last 2 are rounded away
        RoundAway([top |-> 1, f1 |-> d1, f2 |-> d2, f3 |-> d3, low |-> LimbBits,
                   e |-> 0 - sh - 3 * LimbBits], 2, r3 # 0)

\* the double x * 100
DoubleTimes100(x) ==
    LET p3   == 100 * x.f3
        p2   == (100 * x.f2) + (p3 \div Pow2(x.low))
        p1   == (100 * x.f1) + (p2 \div Limb)
        top  == (100 * x.top) + (p1 \div Limb)
        prod == [x EXCEPT !.f3 = p3 % Pow2(x.low), !.f2 = p2 % Limb, !.f1 = p1 % Limb,
                          !.top = top]
        \* the product has 6 bits more than x, or 7 from 128 * 2^52 on
        drop == IF top >= 128 THEN 7 ELSE 6
    IN  RoundAway(prod, drop, FALSE)

\* Math.round(x), x >= 1/2: the integer part, plus one when the fraction is 1/2 or more
JsRound(x) ==
    LET hi    == x.top * Limb + x.f1
        \* hi counts units of 2^(e + low + 18)
        unit  == 0 - (x.e + x.low + LimbBits)
    IN  (hi \div Pow2(unit)) + ((hi \div Pow2(unit - 1)) % 2)

\* Math.round((completedQs / totalQs) * 100), 0 <= completedQs <= totalQs, totalQs > 0
MathRound(completedQs, totalQs) ==
    IF completedQs = 0 THEN 0
    ELSE JsRound(DoubleTimes100(DoubleDiv(completedQs, totalQs)))

----------------------------------------------------------------------------
(* calculateProgress, src/app.jsx:43-64 *)

\* ex.questions?.length || 0
QuestionsLength(o) == IF "questions" \in DOMAIN o THEN Len(o.questions) ELSE 0
\* faulty variant for C23: the questions still open are counted as completed
CompletedLengthOpen(o) ==
    IF "questions" \in DOMAIN o
    THEN CountIf(LAMBDA q : ~q.completed, o.questions) ELSE 0

\* ex.questions?.filter(q => q.completed).length || 0
CompletedLength(o) ==
    IF "questions" \in DOMAIN o
    THEN CountIf(LAMBDA q : q.completed, o.questions) ELSE 0

\* section.type === 'exercise' && section.subExercises
IsExerciseBranch(section) ==
    /\ "type" \in DOMAIN section
    /\ section.type = "exercise"
    /\ "subExercises" \in DOMAIN section

SectionTotal(section) ==
    IF IsExerciseBranch(section)
    THEN SumOver(LAMBDA k : QuestionsLength(section.subExercises[k]),
                 DOMAIN section.subExercises)
    ELSE QuestionsLength(section)

SectionCompleted(section) ==
    IF IsExerciseBranch(section)
    THEN SumOver(LAMBDA k : CompletedLength(section.subExercises[k]),
                 DOMAIN section.subExercises)
    ELSE CompletedLength(section)

calculateProgress(chapter) ==
    IF "sections" \notin DOMAIN chapter THEN 0
    ELSE LET sections    == chapter.sections
             totalQs     == SumOver(LAMBDA k : SectionTotal(sections[k]), DOMAIN sections)
             completedQs == SumOver(LAMBDA k : SectionCompleted(sections[k]), DOMAIN sections)
         IN  IF DOMAIN sections = {} THEN 0
             ELSE IF totalQs = 0 THEN 0
             ELSE MathRound(completedQs, totalQs)

----------------------------------------------------------------------------
(* Numbers typed into a count input, and parseInt, src/app.jsx:311, 394 *)

DigitChars == <<"0", "1", "2", "3", "4", "5", "6", "7", "8", "9">>
IsDigit(ch) == \E d \in 1..Len(DigitChars) : DigitChars[d] = ch
DigitVal(ch) == (CHOOSE d \in 1..Len(DigitChars) : DigitChars[d] = ch) - 1

\* the value of the longest prefix of digits of s, continuing from acc
RECURSIVE ParseDigits(_, _)
ParseDigits(s, acc) ==
    IF s # <<>> /\ IsDigit(Head(s))
    THEN ParseDigits(Tail(s), 10 * acc + DigitVal(Head(s)))
    ELSE acc

\* parseInt(str): a number, or NaN when no digit follows the optional sign
ParseInt(str) ==
    LET neg  == str # <<>> /\ Head(str) = "-"
        body == IF neg THEN Tail(str) ELSE str
    IN  IF body = <<>> \/ ~IsDigit(Head(body))
        THEN [nan |-> TRUE]
        ELSE [nan |-> FALSE,
              n   |-> IF neg THEN 0 - ParseDigits(body, 0) ELSE ParseDigits(body, 0)]

\* the literal 0 of the Reset button, src/app.jsx:401
Zero == [nan |-> FALSE, n |-> 0]

\* Array.from({ length: count }, (_, i) => ({ id: `q-${i+1}`, completed: false })):
\* ToLength takes NaN and negative lengths to 0
NewQuestions(count) ==
    LET len == IF count.nan \/ count.n < 0 THEN 0 ELSE count.n
    IN  [i \in 1..len |-> [id |-> Qid(i), completed |-> FALSE]]

----------------------------------------------------------------------------
(* The mutation handlers, src/app.jsx:248-322.  Each yields what the       *)
(* handler does with the tree `subjects` of its render:                    *)
(*   [out |-> "return"]                 it returns before saveData         *)
(*   [out |-> "threw"]                  a TypeError leaves the handler     *)
(*   [out |-> "save", tree |-> t]       it calls saveData(t)               *)
(* and `used`, the number of randomUUID calls it made.                     *)

Lower(type) ==
    CASE type = "EXERCISE" -> "exercise"
      [] type = "EXAMPLES" -> "examples"
      [] type = "PYQS"     -> "pyqs"

\* subjects.map(s => s.id !== sId ? s : { ...s, chapters: s.chapters.map(
\*     c => c.id !== cId ? c : f(c)) })
MapChapter(subjs, sId, cId, f(_)) ==
    SeqMap(LAMBDA s :
             IF s.id # sId THEN s
             ELSE Put(s, "chapters",
                      SeqMap(LAMBDA c : IF c.id # cId THEN c ELSE f(c), s.chapters)),
           subjs)

\* the chapters the callback of MapChapter is applied to
Targets(subjs, sId, cId) ==
    {c \in UNION {{s.chapters[j] : j \in 1..Len(s.chapters)} :
                    s \in {subjs[i] : i \in {i \in 1..Len(subjs) : subjs[i].id = sId}}} :
        c.id = cId}

\* where the ids address: positions of the subject, of its chapter, of a question
SubjectAt(tree, sId)     == {i \in 1..Len(tree) : tree[i].id = sId}
ChapterAt(tree, i, cId)  == {j \in 1..Len(tree[i].chapters) : tree[i].chapters[j].id = cId}
QuestionAt(questions, qId) == {k \in 1..Len(questions) : questions[k].id = qId}

\* faulty variant for C3: the sections are replaced and the cached progress is kept
WithSectionsStale(c, newSecs) == Put(c, "sections", newSecs)

\* { ...c, sections: newSecs, progress: calculateProgress({ ...c, sections: newSecs }) }
WithSections(c, newSecs) ==
    Put(Put(c, "sections", newSecs), "progress",
        calculateProgress(Put(c, "sections", newSecs)))

\* faulty variant for C19: the name is not tested
addSubjectUnchecked(subjs, name, n) ==
    [out  |-> "save", used |-> 1,
     tree |-> Append(subjs, [id |-> Uuid(n + 1), name |-> name, chapters |-> <<>>])]

addSubject(subjs, name, n) ==
    IF Trim(name) = <<>>
    THEN [out |-> "return", used |-> 0]
    ELSE [out  |-> "save", used |-> 1,
          tree |-> Append(subjs, [id |-> Uuid(n + 1), name |-> name, chapters |-> <<>>])]

\* faulty variant for C20: an exercise section is built like any other, without
\* its sub-exercise map
RECURSIVE NewSectionsPlain(_, _)
NewSectionsPlain(selectedSections, n) ==
    IF selectedSections = <<>> THEN <<>>
    ELSE LET k    == Len(selectedSections)
             type == selectedSections[k]
             id   == Uuid(n + k)
         IN  Put(NewSectionsPlain(SubSeq(selectedSections, 1, k - 1), n), id,
                 [id |-> id, label |-> type, type |-> Lower(type), questions |-> <<>>])

\* the sections object built by selectedSections.forEach
RECURSIVE NewSections(_, _)
NewSections(selectedSections, n) ==
    IF selectedSections = <<>> THEN <<>>
    ELSE LET k    == Len(selectedSections)
             type == selectedSections[k]
             id   == Uuid(n + k)
             base == [id |-> id, label |-> type, type |-> Lower(type), questions |-> <<>>]
         IN  Put(NewSections(SubSeq(selectedSections, 1, k - 1), n), id,
                 IF type = "EXERCISE" THEN Put(base, "subExercises", <<>>) ELSE base)

addChapter(subjs, sId, name, selectedSections, n) ==
    LET k        == Len(selectedSections)
        sections == NewSections(selectedSections, n)
        hit      == {i \in 1..Len(subjs) : subjs[i].id = sId}
    IN  [out  |-> "save", used |-> k + Cardinality(hit),
         tree |-> SeqMap(LAMBDA s :
                    IF s.id = sId
                    THEN Put(s, "chapters",
                             Append(s.chapters,
                                    [id |-> Uuid(n + k + 1), name |-> name,
                                     progress |-> 0, sections |-> sections]))
                    ELSE s, subjs)]

\* faulty variant for C11: the id is not compared, every question is flipped
FlipAll(questions, qId) ==
    SeqMap(LAMBDA q : Put(q, "completed", ~q.completed), questions)

\* faulty variant for C12: the question is marked completed, not negated
FlipOn(questions, qId) ==
    SeqMap(LAMBDA q : IF q.id = qId THEN Put(q, "completed", TRUE) ELSE q, questions)

\* q => q.id === qId ? { ...q, completed: !q.completed } : q
Flip(questions, qId) ==
    SeqMap(LAMBDA q : IF q.id = qId THEN Put(q, "completed", ~q.completed) ELSE q,
           questions)

\* the reads of toggleQuestion's callback that hit undefined
toggleThrows(c, secId, subExId) ==
    \/ secId \notin DOMAIN c.sections
    \/ /\ subExId # NoSubEx
       /\ \/ "subExercises" \notin DOMAIN c.sections[secId]
          \/ subExId \notin DOMAIN c.sections[secId].subExercises
          \/ "questions" \notin DOMAIN c.sections[secId].subExercises[subExId]
    \/ /\ subExId = NoSubEx
       /\ "questions" \notin DOMAIN c.sections[secId]

toggleChapter(c, secId, qId, subExId) ==
    LET sec == c.sections[secId]
    IN  IF subExId # NoSubEx
        THEN LET sub == sec.subExercises[subExId]
                 upd == Flip(sub.questions, qId)
             IN  WithSections(c, Put(c.sections, secId,
                     Put(sec, "subExercises",
                         Put(sec.subExercises, subExId, Put(sub, "questions", upd)))))
        ELSE LET upd == Flip(sec.questions, qId)
             IN  WithSections(c, Put(c.sections, secId, Put(sec, "questions", upd)))

toggleQuestion(subjs, sId, cId, secId, qId, subExId) ==
    IF \E c \in Targets(subjs, sId, cId) : toggleThrows(c, secId, subExId)
    THEN [out |-> "threw", used |-> 0]
    ELSE [out  |-> "save", used |-> 0,
          tree |-> MapChapter(subjs, sId, cId,
                              LAMBDA c : toggleChapter(c, secId, qId, subExId))]

\* faulty variant for C13: the new questions are appended to the old list
genChapterAppend(c, secId, count) ==
    LET old == IF secId \in DOMAIN c.sections THEN c.sections[secId] ELSE <<>>
        qs  == IF "questions" \in DOMAIN old THEN old.questions ELSE <<>>
    IN  WithSections(c, Put(c.sections, secId,
                            Put(old, "questions", qs \o NewQuestions(count))))

\* { ...c.sections, [secId]: { ...c.sections[secId], questions: updQs } }
genChapter(c, secId, count) ==
    LET old == IF secId \in DOMAIN c.sections THEN c.sections[secId] ELSE <<>>
    IN  WithSections(c, Put(c.sections, secId, Put(old, "questions", NewQuestions(count))))

genQuestions(subjs, sId, cId, secId, count) ==
    [out  |-> "save", used |-> 0,
     tree |-> MapChapter(subjs, sId, cId, LAMBDA c : genChapter(c, secId, count))]

\* faulty variant for C16: the chapter is removed from whatever subject holds it
deleteChapterAnywhere(subjs, sId, cId) ==
    [out  |-> "save", used |-> 0,
     tree |-> SeqMap(LAMBDA s :
                Put(s, "chapters", SeqFilter(LAMBDA c : c.id # cId, s.chapters)), subjs)]

\* faulty variant for C21: the subject loses every chapter
deleteChapterEmptying(subjs, sId, cId) ==
    [out  |-> "save", used |-> 0,
     tree |-> SeqMap(LAMBDA s :
                IF s.id = sId THEN Put(s, "chapters", <<>>) ELSE s, subjs)]

deleteChapter(subjs, sId, cId) ==
    [out  |-> "save", used |-> 0,
     tree |-> SeqMap(LAMBDA s :
                IF s.id = sId
                THEN Put(s, "chapters", SeqFilter(LAMBDA c : c.id # cId, s.chapters))
                ELSE s, subjs)]

genericChapter(c, label, secId) ==
    WithSections(c, Put(c.sections, secId,
        [id |-> secId, label |-> label, type |-> "custom", questions |-> <<>>]))

addGenericSection(subjs, sId, cId, label, n) ==
    [out  |-> "save", used |-> Cardinality(Targets(subjs, sId, cId)),
     tree |-> MapChapter(subjs, sId, cId, LAMBDA c : genericChapter(c, label, Uuid(n + 1)))]

\* c.sections[secId].subExercises with c.sections[secId] undefined
subExThrows(c, secId) == secId \notin DOMAIN c.sections

subExChapter(c, secId, name, qCount, subId) ==
    LET sec    == c.sections[secId]
        newSub == [id |-> subId, name |-> name, questions |-> NewQuestions(qCount)]
        olds   == IF "subExercises" \in DOMAIN sec THEN sec.subExercises ELSE <<>>
    IN  WithSections(c, Put(c.sections, secId,
                            Put(sec, "subExercises", Put(olds, subId, newSub))))

addSubExercise(subjs, sId, cId, secId, name, count, n) ==
    LET qCount == ParseInt(count)
        hit    == Targets(subjs, sId, cId)
    IN  IF \E c \in hit : subExThrows(c, secId)
        THEN [out |-> "threw", used |-> 1]
        ELSE [out  |-> "save", used |-> Cardinality(hit),
              tree |-> MapChapter(subjs, sId, cId,
                         LAMBDA c : subExChapter(c, secId, name, qCount, Uuid(n + 1)))]

----------------------------------------------------------------------------
(* The store and the Data Sync effect, src/app.jsx:131-143, 168-175 *)

\* a snapshot of a document that does not exist: snap.exists() is false
Absent == [exists |-> FALSE]
\* a snapshot with snap.data() = data
Doc(data) == [exists |-> TRUE, data |-> data]

\* faulty variant for C2: the snapshot's subjects are added to those in memory
ApplySnapshotMerged(tree, snap) ==
    IF snap.exists
    THEN tree \o (IF "list" \in DOMAIN snap.data THEN snap.data.list ELSE <<>>)
    ELSE tree

\* faulty variant for C27: only an empty tree takes a snapshot
ApplySnapshotOnce(tree, snap) ==
    IF snap.exists /\ tree = <<>>
    THEN (IF "list" \in DOMAIN snap.data THEN snap.data.list ELSE <<>>)
    ELSE tree

\* the onSnapshot callback: if (snap.exists()) setSubjects(snap.data().list || [])
ApplySnapshot(tree, snap) ==
    IF snap.exists
    THEN (IF "list" \in DOMAIN snap.data THEN snap.data.list ELSE <<>>)
    ELSE tree

\* faulty variant for C8: the effect returns no cleanup, the listener stays
CleanupNone(live, held) == live

\* the cleanup of the previous effect run: return () => unsubscribe()
Cleanup(live, held) == {s \in live : s.id \notin held}

\* faulty variant for C7: the effect returns without setSubjects([])
EffectTreeKept(u, tree) == tree

\* if (!user) { setSubjects([]); return; }
EffectTree(u, tree) == IF u = NoUser THEN <<>> ELSE tree

\* faulty variant for C18: the setDoc is issued a second time
saveDataRepeated(pending, u, newSubjs) ==
    IF u = NoUser THEN pending
    ELSE pending \o << [uid |-> u, data |-> [list |-> newSubjs]],
                      [uid |-> u, data |-> [list |-> newSubjs]] >>

\* faulty variant for C28: with no user the tree is written to A's document
saveDataUnguarded(pending, u, newSubjs) ==
    Append(pending, [uid |-> IF u = NoUser THEN "A" ELSE u, data |-> [list |-> newSubjs]])

\* saveData: if (!user) return; await setDoc(doc(.., user.uid, ..), { list: newSubjs })
saveData(pending, u, newSubjs) ==
    IF u = NoUser THEN pending
    ELSE Append(pending, [uid |-> u, data |-> [list |-> newSubjs]])

\* the store tells every live listener of a document about its new content
Notify(live, uid, doc) ==
    {IF s.uid = uid THEN [s EXCEPT !.queue = Append(@, doc)] ELSE s : s \in live}

----------------------------------------------------------------------------
(* Documents a session can find in the store: written by earlier sessions  *)
(* of this program, built here by its own handlers from the empty tree.    *)

Seed1 == addSubject(<<>>, <<"M">>, 0)
Seed2 == addChapter(Seed1.tree, Uuid(1), <<"M">>, <<"EXAMPLES", "EXERCISE">>, Seed1.used)
Seed3 == addSubExercise(Seed2.tree, Uuid(1), Uuid(4), Uuid(3), <<"M">>, <<"2">>,
                        Seed1.used + Seed2.used)
Seed4 == genQuestions(Seed3.tree, Uuid(1), Uuid(4), Uuid(2), ParseInt(<<"1">>))
SeedTree == Seed4.tree
SeedUsed == Seed1.used + Seed2.used + Seed3.used

\* A's document holds the tree of an earlier session or does not exist yet;
\* B's holds an empty list or does not exist yet
SeedDocs == {d \in [Uids -> {Absent, Doc([list |-> SeedTree]), Doc([list |-> <<>>])}] :
                /\ d["A"] # Doc([list |-> <<>>])
                /\ d["B"] # Doc([list |-> SeedTree])}

\* the chapter calculateProgress is not yet applied to
NoChapter == [id |-> Missing]
\* toggleQuestion is not applied on its own
NoTwice == [n |-> 0]
\* nothing was made yet
NoRun == [step |-> "start", tree |-> <<>>, used |-> 0, sId |-> Missing, cId |-> Missing,
          secId |-> Missing, subId |-> Missing, n |-> 0, done |-> {}]

Init ==
    /\ authUser = NoUser
    /\ authCalls = <<>>
    /\ docs \in SeedDocs
    /\ onboarded = {u \in Uids : docs[u].exists}
    /\ user = NoUser
    /\ loading = TRUE
    /\ setupStep = FALSE
    /\ subjects = <<>>
    /\ effectPending = FALSE
    /\ effectSub = {}
    /\ subs = {}
    /\ nextSub = 0
    /\ writes = <<>>
    /\ nextId = SeedUsed
    /\ nMut = 0
    /\ nAuth = 0
    /\ last = [op |-> "init"]
    /\ calcIn = NoChapter
    /\ calcOut = -1
    /\ twice = NoTwice
    /\ run = NoRun

----------------------------------------------------------------------------
(* Auth, src/app.jsx:100-126, 177-183 *)

\* onAuthStateChanged calls back with null
AuthSignedOut ==
    /\ nAuth < MaxAuth
    /\ nAuth = 0 \/ authUser # NoUser
    /\ authUser' = NoUser
    /\ user' = NoUser
    /\ setupStep' = FALSE
    /\ loading' = FALSE
    /\ effectPending' = (effectPending \/ user # NoUser)
    /\ nAuth' = nAuth + 1
    /\ last' = [op |-> "signedOut"]
    /\ UNCHANGED <<authCalls, onboarded, subjects, effectSub, subs, nextSub, docs,
                   writes, nextId, nMut, calcVars>>

\* onAuthStateChanged calls back with u: the callback awaits getDoc(profileRef)
AuthSignedIn(u) ==
    /\ nAuth < MaxAuth
    /\ u # authUser
    /\ authUser' = u
    /\ authCalls' = Append(authCalls, u)
    /\ nAuth' = nAuth + 1
    /\ last' = [op |-> "signedIn", uid |-> u]
    /\ UNCHANGED <<onboarded, user, loading, setupStep, syncVars, nextId, nMut, calcVars>>

RemoveAt(s, i) == SubSeq(s, 1, i - 1) \o SubSeq(s, i + 1, Len(s))

\* the rest of the callback of the i-th pending call, whose awaits ended as `how`:
\* "getDocFailed", "setDocFailed" (both reach the catch) or "ok"
AuthProfileResolved(i, how) ==
    LET u       == authCalls[i]
        known   == u \in onboarded
        setup   == how = "ok" /\ ~known /\ ~HasDisplayName(u)
    IN  /\ how = "setDocFailed" => (~known /\ HasDisplayName(u))
        /\ authCalls' = RemoveAt(authCalls, i)
        /\ onboarded' = IF how = "ok" /\ ~known /\ HasDisplayName(u)
                        THEN onboarded \cup {u} ELSE onboarded
        /\ user' = IF setup THEN user ELSE u
        /\ effectPending' = (effectPending \/ ~setup)
        /\ setupStep' = IF setup THEN TRUE ELSE IF how = "ok" THEN FALSE ELSE setupStep
        /\ loading' = FALSE
        /\ last' = [op |-> "authResolved", uid |-> u]
        /\ UNCHANGED <<authUser, subjects, effectSub, subs, nextSub, docs, writes,
                       nextId, nMut, nAuth, calcVars>>

\* the setup form is what the component renders
SetupVisible == ~loading /\ setupStep
\* the main screen, and with it the handlers, is what the component renders
MainVisible  == ~loading /\ ~setupStep

completeSetup(tempName) ==
    /\ SetupVisible
    /\ authUser # NoUser
    /\ Trim(tempName) # <<>>
    /\ onboarded' = onboarded \cup {authUser}
    /\ user' = authUser
    /\ effectPending' = TRUE
    /\ setupStep' = FALSE
    /\ last' = [op |-> "completeSetup"]
    /\ UNCHANGED <<authUser, authCalls, loading, subjects, effectSub, subs, nextSub,
                   docs, writes, nextId, nMut, nAuth, calcVars>>

----------------------------------------------------------------------------
(* Data Sync, src/app.jsx:131-143 *)

\* React runs the cleanup of the previous run, then the effect, after `user` changed
SyncEffect ==
    /\ effectPending
    /\ effectPending' = FALSE
    /\ subjects' = EffectTree(user, subjects)
    /\ IF user = NoUser
       THEN /\ subs' = Cleanup(subs, effectSub)
            /\ effectSub' = {}
            /\ nextSub' = nextSub
       ELSE /\ subs' = Cleanup(subs, effectSub)
                         \cup {[id |-> nextSub + 1, uid |-> user, queue |-> <<docs[user]>>]}
            /\ effectSub' = {nextSub + 1}
            /\ nextSub' = nextSub + 1
    /\ last' = [op |-> "effect", pre |-> subjects, held |-> effectSub]
    /\ UNCHANGED <<appVars, docs, writes, nextId, nMut, nAuth, calcVars>>

\* the listener s is called with the oldest snapshot the store holds for it
DeliverSnapshot(s) ==
    /\ s \in subs
    /\ s.queue # <<>>
    /\ subjects' = ApplySnapshot(subjects, Head(s.queue))
    /\ subs' = (subs \ {s}) \cup {[s EXCEPT !.queue = Tail(@)]}
    /\ last' = [op |-> "snapshot", sub |-> s.id, uid |-> s.uid, snap |-> Head(s.queue),
                pre |-> subjects, pending |-> Len(writes), during |-> effectPending]
    /\ UNCHANGED <<appVars, effectPending, effectSub, nextSub, docs, writes,
                   nextId, nMut, nAuth, calcVars>>

\* the oldest setDoc of saveData resolves: the document is replaced wholesale
WriteLands ==
    /\ writes # <<>>
    /\ LET w == Head(writes)
       IN  /\ docs' = [docs EXCEPT ![w.uid] = Doc(w.data)]
           /\ subs' = IF docs[w.uid] = Doc(w.data) THEN subs
                      ELSE Notify(subs, w.uid, Doc(w.data))
           /\ last' = [op |-> "writeLanded", write |-> w, tree |-> subjects]
    /\ writes' = Tail(writes)
    /\ UNCHANGED <<appVars, subjects, effectPending, effectSub, nextSub,
                   nextId, nMut, nAuth, calcVars>>

\* the oldest setDoc of saveData rejects: catch (e) { console.error("Save failed", e) }
WriteRejected ==
    /\ writes # <<>>
    /\ writes' = Tail(writes)
    /\ last' = [op |-> "writeRejected", write |-> Head(writes), tree |-> subjects]
    /\ UNCHANGED <<appVars, subjects, effectPending, effectSub, subs, nextSub, docs,
                   nextId, nMut, nAuth, calcVars>>

----------------------------------------------------------------------------
(* The handlers as the main screen calls them, src/app.jsx:248-322.  The   *)
(* handler reads the `subjects` of its render and hands its result to      *)
(* saveData; it calls no setSubjects.                                      *)

Mutate(op, args, r) ==
    /\ MainVisible
    /\ nMut < MaxMut
    /\ nMut' = nMut + 1
    /\ nextId' = nextId + r.used
    /\ writes' = IF r.out = "save" THEN saveData(writes, user, r.tree) ELSE writes
    /\ last' = [op |-> op, args |-> args, res |-> r, user |-> user]
    /\ UNCHANGED <<appVars, subjects, effectPending, effectSub, subs, nextSub, docs,
                   nAuth, calcVars>>

\* ids of the tree
Chapters(tree)   == UNION {{s.chapters[j] : j \in 1..Len(s.chapters)} :
                            s \in {tree[i] : i \in 1..Len(tree)}}
SubjectIds(tree) == {tree[i].id : i \in 1..Len(tree)}
ChapterIds(tree) == {c.id : c \in Chapters(tree)}
SectionIds(tree) == UNION {DOMAIN c.sections : c \in Chapters(tree)}
SubExIds(tree)   ==
    UNION {UNION {DOMAIN c.sections[k].subExercises :
                    k \in {x \in DOMAIN c.sections : "subExercises" \in DOMAIN c.sections[x]}} :
             c \in Chapters(tree)}
\* the chapter addressed exists
Hits(tree, sId, cId) == Targets(tree, sId, cId) # {}

(* The arguments tried.  `wide` draws every argument from the ids of the   *)
(* tree and from ids of nothing, and every name and count; otherwise the   *)
(* arguments are those the screens pass (src/app.jsx:394-401, 418, 428,    *)
(* 438): the ids of a chapter of the tree, of one of its sections and of   *)
(* one of that section's sub-exercises, and one name.                      *)
InChapter(tree, sId, cId, secId, subExId) ==
    \A c \in Targets(tree, sId, cId) :
        /\ secId \in DOMAIN c.sections
        /\ subExId # NoSubEx =>
              /\ "subExercises" \in DOMAIN c.sections[secId]
              /\ subExId \in DOMAIN c.sections[secId].subExercises
\* the section is one the chapter screen offers the sub-exercise form for:
\* if (sec.type === 'exercise'), src/app.jsx:433
OffersSubEx(tree, sId, cId, secId) ==
    \A c \in Targets(tree, sId, cId) :
        /\ "type" \in DOMAIN c.sections[secId]
        /\ c.sections[secId].type = "exercise"
Names == {<<>>, <<" ">>, <<"M">>}
SubjectArgs(tree, wide) == SubjectIds(tree) \cup (IF wide THEN {Missing} ELSE {})
PathArgs(tree, wide) ==
    IF wide
    THEN {p \in (SubjectIds(tree) \cup {Missing}) \X (ChapterIds(tree) \cup {Missing}) :
            p[1] # Missing \/ p[2] # Missing}
    ELSE {p \in SubjectIds(tree) \X ChapterIds(tree) : Hits(tree, p[1], p[2])}
SectionArgs(tree, wide)  == SectionIds(tree) \cup (IF wide THEN {Missing} ELSE {})
SubExArgs(tree, wide)    == SubExIds(tree) \cup {NoSubEx} \cup (IF wide THEN {Missing} ELSE {})
QuestionArgs(wide)       ==
    IF wide THEN {Qid(i) : i \in 1..MaxCount} \cup {Missing} ELSE {Qid(1)}
CountStrings(wide)       ==
    IF wide THEN {<<>>, <<"-", "1">>} \cup {<<DigitChars[k + 1]>> : k \in 0..MaxCount}
    ELSE {<<"1">>}
SubjectNames(wide)       == IF wide THEN Names ELSE {<<" ">>, <<"M">>}
Labels(wide)             == IF wide THEN {<<>>, <<"M">>} ELSE {<<"M">>}
KindLists(wide)          ==
    IF wide THEN {<<>>, <<"PYQS">>, <<"EXERCISE">>, <<"EXAMPLES", "EXERCISE">>}
    ELSE {<<"EXAMPLES", "EXERCISE">>}

AddSubject(wide) ==
    \E name \in SubjectNames(wide) :
        Mutate("addSubject", [name |-> name], addSubject(subjects, name, nextId))

AddChapter(wide) ==
    \E sId \in SubjectArgs(subjects, wide), name \in Labels(wide), kinds \in KindLists(wide) :
        Mutate("addChapter", [sId |-> sId, name |-> name, kinds |-> kinds],
               addChapter(subjects, sId, name, kinds, nextId))

\* below a chapter that does not exist the other arguments are fixed
ToggleQuestion(wide) ==
    \E p \in PathArgs(subjects, wide), secId \in SectionArgs(subjects, wide),
       qId \in QuestionArgs(wide), subExId \in SubExArgs(subjects, wide) :
        /\ Hits(subjects, p[1], p[2]) \/ (qId = Qid(1) /\ subExId = NoSubEx)
        /\ wide \/ InChapter(subjects, p[1], p[2], secId, subExId)
        /\ Mutate("toggleQuestion",
                  [sId |-> p[1], cId |-> p[2], secId |-> secId, qId |-> qId,
                   subExId |-> subExId],
                  toggleQuestion(subjects, p[1], p[2], secId, qId, subExId))

\* Generate passes parseInt of the input's value, Reset passes 0
GenQuestions(wide) ==
    \E p \in PathArgs(subjects, wide), secId \in SectionArgs(subjects, wide),
       count \in {ParseInt(str) : str \in CountStrings(wide)} \cup {Zero} :
        /\ Hits(subjects, p[1], p[2]) \/ count = ParseInt(<<"1">>)
        /\ wide \/ InChapter(subjects, p[1], p[2], secId, NoSubEx)
        /\ Mutate("genQuestions",
                  [sId |-> p[1], cId |-> p[2], secId |-> secId, count |-> count],
                  genQuestions(subjects, p[1], p[2], secId, count))

DeleteChapter(wide) ==
    \E p \in PathArgs(subjects, wide) :
        Mutate("deleteChapter", [sId |-> p[1], cId |-> p[2]],
               deleteChapter(subjects, p[1], p[2]))

AddGenericSection(wide) ==
    \E p \in PathArgs(subjects, wide), label \in Labels(wide) :
        Mutate("addGenericSection", [sId |-> p[1], cId |-> p[2], label |-> label],
               addGenericSection(subjects, p[1], p[2], label, nextId))

AddSubExercise(wide) ==
    \E p \in PathArgs(subjects, wide), secId \in SectionArgs(subjects, wide),
       name \in Labels(wide), count \in CountStrings(wide) :
        /\ Hits(subjects, p[1], p[2]) \/ (name = <<"M">> /\ count = <<"1">>)
        /\ wide \/ (/\ InChapter(subjects, p[1], p[2], secId, NoSubEx)
                    /\ OffersSubEx(subjects, p[1], p[2], secId))
        /\ Mutate("addSubExercise",
                  [sId |-> p[1], cId |-> p[2], secId |-> secId, name |-> name,
                   count |-> count],
                  addSubExercise(subjects, p[1], p[2], secId, name, count, nextId))

----------------------------------------------------------------------------
(* The session: auth changes, the effect, the store and the handlers in    *)
(* any order.                                                              *)

Next ==
    \/ AuthSignedOut
    \/ \E u \in Uids : AuthSignedIn(u)
    \/ \E i \in 1..Len(authCalls), how \in {"ok", "getDocFailed", "setDocFailed"} :
          AuthProfileResolved(i, how)
    \/ \E tempName \in {<<" ">>, <<"M">>} : completeSetup(tempName)
    \/ SyncEffect
    \/ \E s \in subs : DeliverSnapshot(s)
    \/ WriteLands
    \/ WriteRejected
    \/ AddSubject(FALSE)
    \/ AddChapter(FALSE)
    \/ ToggleQuestion(FALSE)
    \/ GenQuestions(FALSE)
    \/ DeleteChapter(FALSE)
    \/ AddGenericSection(FALSE)
    \/ AddSubExercise(FALSE)

Spec == Init /\ [][Next]_vars

----------------------------------------------------------------------------
(* The handlers one after the other, each applied to the result of the     *)
(* previous one: user A stays signed in, and every write lands and its     *)
(* snapshot is delivered before the next request.                          *)

InitMut ==
    /\ authUser = "A"
    /\ authCalls = <<>>
    /\ onboarded = {"A"}
    /\ user = "A"
    /\ loading = FALSE
    /\ setupStep = FALSE
    /\ subjects \in {<<>>, SeedTree}
    /\ effectPending = FALSE
    /\ effectSub = {1}
    /\ subs = {[id |-> 1, uid |-> "A", queue |-> <<>>]}
    /\ nextSub = 1
    /\ docs = [u \in Uids |-> IF u = "A" THEN Doc([list |-> subjects]) ELSE Absent]
    /\ writes = <<>>
    /\ nextId = SeedUsed
    /\ nMut = 0
    /\ nAuth = 1
    /\ last = [op |-> "init"]
    /\ calcIn = NoChapter
    /\ calcOut = -1
    /\ twice = NoTwice
    /\ run = NoRun

\* nothing of the previous request is under way
Quiet == writes = <<>> /\ \A s \in subs : s.queue = <<>>

NextMut ==
    \/ /\ Quiet
       /\ \/ AddSubject(TRUE)
          \/ AddChapter(TRUE)
          \/ ToggleQuestion(TRUE)
          \/ GenQuestions(TRUE)
          \/ DeleteChapter(TRUE)
          \/ AddGenericSection(TRUE)
          \/ AddSubExercise(TRUE)
    \/ WriteLands
    \/ \E s \in subs : DeliverSnapshot(s)

SpecMut == InitMut /\ [][NextMut]_vars

----------------------------------------------------------------------------
(* calculateProgress alone, on chapters of the shapes the handlers leave:  *)
(* an exercise section of addChapter (with its own questions after a       *)
(* genQuestions), a section with a type and questions, the same after an   *)
(* addSubExercise, and the section genQuestions makes of an unknown id.    *)

\* every list of n questions or fewer with ids q-1.., completed or not
QuestionLists(n) ==
    UNION {{[i \in 1..k |-> [id |-> Qid(i), completed |-> f[i]]] : f \in [1..k -> BOOLEAN]} :
             k \in 0..n}

\* n questions of which the first k are completed
FirstDone(n, k) == [i \in 1..n |-> [id |-> Qid(i), completed |-> i <= k]]

SubExerciseMaps ==
    {<<>>} \cup
    {[k \in {"e1"} |-> [id |-> k, name |-> <<"M">>, questions |-> qs]] :
        qs \in QuestionLists(MaxQ)} \cup
    {[k \in {"e1", "e2"} |->
        [id |-> k, name |-> <<"M">>, questions |-> IF k = "e1" THEN q1 ELSE q2]] :
        q1 \in QuestionLists(MaxQ), q2 \in QuestionLists(1)}

ExerciseSections ==
    {[id |-> "s1", label |-> "EXERCISE", type |-> "exercise", questions |-> qs,
      subExercises |-> m] : qs \in QuestionLists(1), m \in SubExerciseMaps}

PlainSections ==
    {[id |-> "s2", label |-> <<"M">>, type |-> "custom", questions |-> qs] :
        qs \in QuestionLists(MaxQ)}
    \cup {[questions |-> qs] : qs \in QuestionLists(MaxQ)}
    \cup {[id |-> "s2", label |-> <<"M">>, type |-> "custom", questions |-> qs,
           subExercises |-> [k \in {"e1"} |->
                               [id |-> k, name |-> <<"M">>, questions |-> <<[id |-> Qid(1), completed |-> TRUE]>>]]] :
            qs \in QuestionLists(1)}

ChapterOf(sections) == [id |-> "c", name |-> <<"M">>, progress |-> 0, sections |-> sections]

CalcInputs ==
    {ChapterOf(<<>>)}
    \cup {ChapterOf([k \in {"s1"} |-> x]) : x \in ExerciseSections}
    \cup {ChapterOf([k \in {"s2"} |-> y]) : y \in PlainSections}
    \cup {ChapterOf([k \in {"s1", "s2"} |-> IF k = "s1" THEN x ELSE y]) :
            x \in ExerciseSections, y \in PlainSections}
    \cup UNION {{ChapterOf([k \in {"s2"} |->
                              [id |-> "s2", label |-> <<"M">>, type |-> "custom",
                               questions |-> FirstDone(n, d)]]) : d \in 0..n} :
                  n \in 1..MaxTotal}

InitCalc ==
    /\ authUser = NoUser
    /\ authCalls = <<>>
    /\ docs = [u \in Uids |-> Absent]
    /\ onboarded = {}
    /\ user = NoUser
    /\ loading = TRUE
    /\ setupStep = FALSE
    /\ subjects = <<>>
    /\ effectPending = FALSE
    /\ effectSub = {}
    /\ subs = {}
    /\ nextSub = 0
    /\ writes = <<>>
    /\ nextId = 0
    /\ nMut = 0
    /\ nAuth = 0
    /\ last = [op |-> "init"]
    /\ calcIn \in CalcInputs
    /\ calcOut = -1
    /\ twice = NoTwice
    /\ run = NoRun

Calculate ==
    /\ calcOut = -1
    /\ calcOut' = calculateProgress(calcIn)
    /\ UNCHANGED <<appVars, syncVars, mutVars, calcIn, twice, run>>

NextCalc == Calculate

SpecCalc == InitCalc /\ [][NextCalc]_vars

----------------------------------------------------------------------------
(* calculateProgress on a chapter and then on the same chapter with more   *)
(* of its questions completed.                                             *)

\* the questions stored under a chapter: <<section, sub-exercise, index>>,
\* with NoSubEx for the section's own list
Stored(chapter) ==
    UNION {LET sec == chapter.sections[k]
           IN  (IF "questions" \in DOMAIN sec
                THEN {<<k, NoSubEx, i>> : i \in 1..Len(sec.questions)} ELSE {})
               \cup
               (IF "subExercises" \in DOMAIN sec
                THEN UNION {{<<k, e, i>> : i \in 1..Len(sec.subExercises[e].questions)} :
                              e \in DOMAIN sec.subExercises}
                ELSE {})
           : k \in DOMAIN chapter.sections}

\* the list a stored question is in, and the question
ListOf(chapter, x) ==
    IF x[2] = NoSubEx THEN chapter.sections[x[1]].questions
    ELSE chapter.sections[x[1]].subExercises[x[2]].questions
QuestionOf(chapter, x) == ListOf(chapter, x)[x[3]]

\* the chapter with the stored question x completed
Completed(chapter, x) ==
    IF x[2] = NoSubEx
    THEN [chapter EXCEPT !.sections[x[1]].questions[x[3]].completed = TRUE]
    ELSE [chapter EXCEPT
            !.sections[x[1]].subExercises[x[2]].questions[x[3]].completed = TRUE]

\* of a list longer than MaxAnyOrder the first open question is completed
\* next, of a shorter one any open question
NextOpen(chapter) ==
    {x \in Stored(chapter) :
        /\ ~QuestionOf(chapter, x).completed
        /\ \/ Len(ListOf(chapter, x)) <= MaxAnyOrder
           \/ \A i \in 1..(x[3] - 1) : ListOf(chapter, x)[i].completed}

CalculateMore ==
    /\ calcOut # -1
    /\ \E x \in NextOpen(calcIn) :
          /\ calcIn' = Completed(calcIn, x)
          /\ calcOut' = calculateProgress(calcIn')
          /\ last' = [op |-> "calculateMore", chapter |-> calcIn, out |-> calcOut]
    /\ UNCHANGED <<appVars, syncVars, nextId, nMut, nAuth, twice, run>>

NextMore ==
    \/ Calculate
    \/ CalculateMore

SpecMore == InitCalc /\ [][NextMore]_vars

----------------------------------------------------------------------------
(* toggleQuestion called a second time with the same arguments on the tree *)
(* its first call made: on the stored tree of an earlier session, the same *)
(* after a genQuestions, and these trees with any of their questions       *)
(* toggled.                                                                *)

\* the existing questions of a tree, as arguments of toggleQuestion
ToggleArgs(tree) ==
    UNION {UNION {
        LET c == tree[i].chapters[j]
        IN  UNION {
              {[sId |-> tree[i].id, cId |-> c.id, secId |-> k, qId |-> q.id,
                subExId |-> NoSubEx] :
                 q \in {c.sections[k].questions[x] : x \in 1..Len(c.sections[k].questions)}}
              \cup
              (IF "subExercises" \in DOMAIN c.sections[k]
               THEN UNION {
                      {[sId |-> tree[i].id, cId |-> c.id, secId |-> k, qId |-> q.id,
                        subExId |-> e] :
                         q \in {c.sections[k].subExercises[e].questions[x] :
                                  x \in 1..Len(c.sections[k].subExercises[e].questions)}} :
                      e \in DOMAIN c.sections[k].subExercises}
               ELSE {})
              : k \in DOMAIN c.sections}
        : j \in 1..Len(tree[i].chapters)} : i \in 1..Len(tree)}

Toggled(tree, a) == toggleQuestion(tree, a.sId, a.cId, a.secId, a.qId, a.subExId).tree

\* the trees with one more question toggled
ToggleStep(trees) == trees \cup UNION {{Toggled(t, a) : a \in ToggleArgs(t)} : t \in trees}

TwiceTrees ==
    LET base == {SeedTree,
                 genQuestions(SeedTree, Uuid(1), Uuid(4), Uuid(2), ParseInt(<<"2">>)).tree}
    IN  ToggleStep(ToggleStep(ToggleStep(ToggleStep(base))))

InitTwice ==
    /\ authUser = NoUser
    /\ authCalls = <<>>
    /\ docs = [u \in Uids |-> Absent]
    /\ onboarded = {}
    /\ user = NoUser
    /\ loading = TRUE
    /\ setupStep = FALSE
    /\ subjects = <<>>
    /\ effectPending = FALSE
    /\ effectSub = {}
    /\ subs = {}
    /\ nextSub = 0
    /\ writes = <<>>
    /\ nextId = 0
    /\ nMut = 0
    /\ nAuth = 0
    /\ last = [op |-> "init"]
    /\ calcIn = NoChapter
    /\ calcOut = -1
    /\ twice \in UNION {{[tree |-> t, args |-> a, n |-> 0, out |-> t] : a \in ToggleArgs(t)} :
                         t \in TwiceTrees}
    /\ run = NoRun

ToggleAgain ==
    /\ twice.n < 2
    /\ LET a == twice.args
           r == toggleQuestion(twice.out, a.sId, a.cId, a.secId, a.qId, a.subExId)
       IN  /\ r.out = "save"
           /\ twice' = [twice EXCEPT !.n = @ + 1, !.out = r.tree]
    /\ UNCHANGED <<appVars, syncVars, mutVars, calcIn, calcOut, run>>

NextTwice == ToggleAgain

SpecTwice == InitTwice /\ [][NextTwice]_vars

----------------------------------------------------------------------------
(* A new subject, in it a chapter with the one section EXERCISE, in that   *)
(* a sub-exercise of n questions, and then questions of it toggled, each   *)
(* handler applied to the tree the one before handed to saveData.          *)

\* what is typed into the count input for the number n
Digits(n) ==
    IF n < 10 THEN <<DigitChars[n + 1]>>
    ELSE <<DigitChars[(n \div 10) + 1], DigitChars[(n % 10) + 1]>>

InitRun ==
    /\ authUser = NoUser
    /\ authCalls = <<>>
    /\ docs = [u \in Uids |-> Absent]
    /\ onboarded = {}
    /\ user = NoUser
    /\ loading = TRUE
    /\ setupStep = FALSE
    /\ subjects = <<>>
    /\ effectPending = FALSE
    /\ effectSub = {}
    /\ subs = {}
    /\ nextSub = 0
    /\ writes = <<>>
    /\ nextId = 0
    /\ nMut = 0
    /\ nAuth = 0
    /\ last = [op |-> "init"]
    /\ calcIn = NoChapter
    /\ calcOut = -1
    /\ twice = NoTwice
    /\ run \in {NoRun, [NoRun EXCEPT !.tree = SeedTree, !.used = SeedUsed]}

RunAddSubject ==
    /\ run.step = "start"
    /\ LET r == addSubject(run.tree, <<"M">>, run.used)
       IN  /\ r.out = "save"
           /\ run' = [run EXCEPT !.step = "subject", !.tree = r.tree,
                                 !.used = @ + r.used,
                                 !.sId = r.tree[Len(r.tree)].id]
    /\ UNCHANGED <<appVars, syncVars, mutVars, calcIn, calcOut, twice>>

RunAddChapter ==
    /\ run.step = "subject"
    /\ LET r == addChapter(run.tree, run.sId, <<"M">>, <<"EXERCISE">>, run.used)
       IN  /\ r.out = "save"
           /\ \E i \in SubjectAt(r.tree, run.sId) :
                 LET c == r.tree[i].chapters[Len(r.tree[i].chapters)]
                 IN  \E k \in DOMAIN c.sections :
                        run' = [run EXCEPT !.step = "chapter", !.tree = r.tree,
                                           !.used = @ + r.used,
                                           !.cId = c.id, !.secId = k]
    /\ UNCHANGED <<appVars, syncVars, mutVars, calcIn, calcOut, twice>>

RunAddSubExercise ==
    /\ run.step = "chapter"
    /\ \E n \in 1..MaxTotal :
          LET r == addSubExercise(run.tree, run.sId, run.cId, run.secId, <<"M">>,
                                  Digits(n), run.used)
          IN  /\ r.out = "save"
              /\ \E i \in SubjectAt(r.tree, run.sId) :
                 \E j \in ChapterAt(r.tree, i, run.cId) :
                 \E e \in DOMAIN r.tree[i].chapters[j].sections[run.secId].subExercises :
                    run' = [run EXCEPT !.step = "subEx", !.tree = r.tree,
                                       !.used = @ + r.used, !.subId = e, !.n = n]
    /\ UNCHANGED <<appVars, syncVars, mutVars, calcIn, calcOut, twice>>

RunToggle ==
    /\ run.step = "subEx"
    /\ \E q \in IF run.n <= MaxAnyOrder THEN (1..run.n) \ run.done
                ELSE {Cardinality(run.done) + 1} \cap (1..run.n) :
          LET r == toggleQuestion(run.tree, run.sId, run.cId, run.secId, Qid(q),
                                  run.subId)
          IN  /\ r.out = "save"
              /\ run' = [run EXCEPT !.tree = r.tree, !.done = @ \cup {q}]
    /\ UNCHANGED <<appVars, syncVars, mutVars, calcIn, calcOut, twice>>

NextRun ==
    \/ RunAddSubject
    \/ RunAddChapter
    \/ RunAddSubExercise
    \/ RunToggle

SpecRun == InitRun /\ [][NextRun]_vars

----------------------------------------------------------------------------
(* One session of user A, whose document exists: the requests the screens  *)
(* make, issued whether or not the writes and snapshots of the earlier     *)
(* ones are through, and the store's answers.                              *)

NextSession ==
    \/ AddSubject(FALSE)
    \/ AddChapter(FALSE)
    \/ ToggleQuestion(FALSE)
    \/ GenQuestions(FALSE)
    \/ DeleteChapter(FALSE)
    \/ AddGenericSection(FALSE)
    \/ AddSubExercise(FALSE)
    \/ WriteLands
    \/ WriteRejected
    \/ \E s \in subs : DeliverSnapshot(s)

SpecSession == InitMut /\ [][NextSession]_vars

\* the store resolves or rejects every setDoc and calls every listener with
\* every snapshot it holds for it
SpecLive ==
    /\ SpecSession
    /\ WF_vars(WriteLands \/ WriteRejected)
    /\ WF_vars(\E s \in subs : DeliverSnapshot(s))

----------------------------------------------------------------------------
(* What the claims speak of *)

MutationOps == {"addSubject", "addChapter", "toggleQuestion", "genQuestions",
                "deleteChapter", "addGenericSection", "addSubExercise"}

\* the step just taken is a handler that called saveData while signed in:
\* its setDoc is the newest pending write
Dispatched == last.op \in MutationOps /\ last.res.out = "save" /\ last.user # NoUser

\* every tree of the state: in memory, stored, being written, being delivered
TreesOf(doc) == IF doc.exists /\ "list" \in DOMAIN doc.data THEN {doc.data.list} ELSE {}
AllTrees ==
    {subjects}
    \cup UNION {TreesOf(docs[u]) : u \in Uids}
    \cup {writes[i].data.list : i \in 1..Len(writes)}
    \cup UNION {UNION {TreesOf(s.queue[i]) : i \in 1..Len(s.queue)} : s \in subs}
    \cup (IF last.op \in MutationOps /\ last.res.out = "save" THEN {last.res.tree} ELSE {})

Sections(tree) == UNION {{c.sections[k] : k \in DOMAIN c.sections} : c \in Chapters(tree)}

----------------------------------------------------------------------------
\* C1: when a handler dispatches its write while signed in, the in-memory tree
\* already is the tree it wrote (the mutation's result).
C1_TreeHoldsResultAtDispatch ==
    Dispatched => subjects = last.res.tree

C3_CachedProgressIsDerived ==
    \A tree \in AllTrees : \A c \in Chapters(tree) : c.progress = calculateProgress(c)

\* C3 witness: after a handler toggled a question, a chapter of the tree has a
\* cached progress strictly between 0 and 100.
C3_Witness ==
    /\ nMut > 0
    /\ last.op = "snapshot"
    /\ \E c \in Chapters(subjects) :
          /\ c.progress > 0
          /\ c.progress < 100
          /\ \A d \in Chapters(last.pre) : d.id = c.id => d.progress # c.progress

\* the questions the claim counts: of the sub-exercises of an exercise-kind
\* section, of the own list of any other section
ClaimSlots(chapter) ==
    UNION {LET sec == chapter.sections[k]
           IN  IF "type" \in DOMAIN sec /\ sec.type = "exercise"
               THEN UNION {{<<k, e, i, sec.subExercises[e].questions[i].completed>> :
                              i \in 1..Len(sec.subExercises[e].questions)} :
                           e \in DOMAIN sec.subExercises}
               ELSE {<<k, k, i, sec.questions[i].completed>> : i \in 1..Len(sec.questions)}
           : k \in DOMAIN chapter.sections}
ClaimTotal(chapter)     == Cardinality(ClaimSlots(chapter))
ClaimCompleted(chapter) == Cardinality({x \in ClaimSlots(chapter) : x[4]})
\* round(100 * c / t): the integer nearest to 100c/t, the upper one of two
ClaimRound(c, t) ==
    CHOOSE r \in 0..100 : 2 * r * t <= 200 * c + t /\ 200 * c + t < 2 * (r + 1) * t

\* C4: calculateProgress returns round(100 * completed / total) over the questions
\* of all sections, 0 when there is none, and always an integer of 0..100.
C4_ProgressIsRoundedRatio ==
    calcOut # -1 =>
        /\ calcOut \in 0..100
        /\ calcOut = IF ClaimTotal(calcIn) = 0 THEN 0
                     ELSE ClaimRound(ClaimCompleted(calcIn), ClaimTotal(calcIn))

\* the section, sub-exercise or question addressed is not in the chapter addressed
TargetMissing ==
    LET a == last.args
    IN  \E c \in Targets(subjects, a.sId, a.cId) :
          \/ a.secId \notin DOMAIN c.sections
          \/ /\ last.op = "toggleQuestion"
             /\ a.subExId # NoSubEx
             /\ \/ "subExercises" \notin DOMAIN c.sections[a.secId]
                \/ a.subExId \notin DOMAIN c.sections[a.secId].subExercises
          \/ /\ last.op = "toggleQuestion"
             /\ a.subExId = NoSubEx
             /\ \A i \in 1..Len(c.sections[a.secId].questions) :
                   c.sections[a.secId].questions[i].id # a.qId

\* C5: toggleQuestion, genQuestions and addSubExercise on an existing chapter but a
\* section, sub-exercise or question that is not there do not throw and hand
\* saveData the tree unchanged.
C5_MissingTargetIsNoOp ==
    (last.op \in {"toggleQuestion", "genQuestions", "addSubExercise"} /\ TargetMissing)
        => (last.res.out = "save" /\ last.res.tree = subjects)

\* C6: after the delivery of a snapshot of a document that does not exist, the
\* in-memory tree is empty.
C6_AbsentSnapshotLeavesTreeEmpty ==
    (last.op = "snapshot" /\ ~last.snap.exists) => subjects = <<>>

\* C7: whenever the Data Sync effect has run for the current `user` and there is no
\* identity, the tree is empty and no listener is live.
C7_IdleIsClearedAndUnsubscribed ==
    (user = NoUser /\ ~effectPending) => (subjects = <<>> /\ subs = {})

\* C7 witness: the effect just ran after the identity was lost; it found a
\* non-empty tree and a live listener.
C7_Witness ==
    /\ user = NoUser
    /\ ~effectPending
    /\ last.op = "effect"
    /\ last.pre # <<>>
    /\ last.held # {}

C9_RejectedWriteKeepsResult ==
    last.op = "writeRejected" => subjects = last.write.data.list

\* the section has a question list or a sub-exercise map, and not both
OneShape(sec) == ("questions" \in DOMAIN sec) # ("subExercises" \in DOMAIN sec)

\* C10: every section a handler makes or changes has exactly one of the two
\* shapes: a `questions` list or a `subExercises` map, never both.
C10_SectionsHaveOneShape ==
    (last.op \in MutationOps /\ last.res.out = "save") =>
        \A sec \in Sections(last.res.tree) \ Sections(subjects) : OneShape(sec)

----------------------------------------------------------------------------
\* the question list toggleQuestion's arguments address in chapter c, if there is one
AddressedLists(c, secId, subExId) ==
    IF secId \notin DOMAIN c.sections THEN {}
    ELSE IF subExId = NoSubEx
    THEN (IF "questions" \in DOMAIN c.sections[secId]
          THEN {c.sections[secId].questions} ELSE {})
    ELSE IF "subExercises" \in DOMAIN c.sections[secId]
            /\ subExId \in DOMAIN c.sections[secId].subExercises
    THEN {c.sections[secId].subExercises[subExId].questions}
    ELSE {}

\* C11: toggleQuestion on ids that all exist hands saveData the input tree with the
\* `completed` flag of the one addressed question negated and with nothing else
\* changed but, possibly, the progress of the enclosing chapter.
C11_ToggleFlipsOneQuestion ==
    last.op = "toggleQuestion" =>
        LET a == last.args
        IN  \A i \in SubjectAt(subjects, a.sId) : \A j \in ChapterAt(subjects, i, a.cId) :
            \A qs \in AddressedLists(subjects[i].chapters[j], a.secId, a.subExId) :
                QuestionAt(qs, a.qId) # {} =>
                    /\ last.res.out = "save"
                    /\ \E k \in QuestionAt(qs, a.qId) :
                          LET p == last.res.tree[i].chapters[j].progress
                          IN  last.res.tree =
                              IF a.subExId = NoSubEx
                              THEN [subjects EXCEPT
                                      ![i].chapters[j].sections[a.secId].questions[k].completed = ~@,
                                      ![i].chapters[j].progress = p]
                              ELSE [subjects EXCEPT
                                      ![i].chapters[j].sections[a.secId].subExercises[a.subExId].questions[k].completed = ~@,
                                      ![i].chapters[j].progress = p]

\* C11 witness: a question of a sub-exercise that holds a second question was
\* toggled, and the chapter's progress changed with it.
C11_Witness ==
    /\ last.op = "toggleQuestion"
    /\ last.res.out = "save"
    /\ last.args.subExId # NoSubEx
    /\ \E i \in SubjectAt(subjects, last.args.sId) :
       \E j \in ChapterAt(subjects, i, last.args.cId) :
       \E qs \in AddressedLists(subjects[i].chapters[j], last.args.secId, last.args.subExId) :
          /\ QuestionAt(qs, last.args.qId) # {}
          /\ Len(qs) > 1
          /\ last.res.tree[i].chapters[j].progress # subjects[i].chapters[j].progress

\* the `completed` flags of the question the arguments a address in a tree, and
\* the cached progress of its chapter
FlagsAt(tree, a) ==
    UNION {UNION {UNION {{qs[k].completed : k \in QuestionAt(qs, a.qId)} :
                           qs \in AddressedLists(tree[i].chapters[j], a.secId, a.subExId)} :
                    j \in ChapterAt(tree, i, a.cId)} :
             i \in SubjectAt(tree, a.sId)}
ProgressAt(tree, a) ==
    UNION {{tree[i].chapters[j].progress : j \in ChapterAt(tree, i, a.cId)} :
             i \in SubjectAt(tree, a.sId)}

\* C12: toggleQuestion applied to an existing question and then, with the same
\* arguments, to the tree this made, gives back the first tree: the question's
\* flag, changed by the first call, and the chapter's progress are as they were.
C12_ToggleTwiceRestores ==
    /\ twice.n = 1 => FlagsAt(twice.out, twice.args) # FlagsAt(twice.tree, twice.args)
    /\ twice.n = 2 =>
          /\ twice.out = twice.tree
          /\ FlagsAt(twice.out, twice.args) = FlagsAt(twice.tree, twice.args)
          /\ ProgressAt(twice.out, twice.args) = ProgressAt(twice.tree, twice.args)

\* C12 witness: a completed question of a sub-exercise, in a chapter that is partly
\* done, was toggled twice.
C12_Witness ==
    /\ twice.n = 2
    /\ twice.args.subExId # NoSubEx
    /\ FlagsAt(twice.tree, twice.args) = {TRUE}
    /\ \E p \in ProgressAt(twice.tree, twice.args) : p > 0 /\ p < 100

\* C13: genQuestions with a count n >= 0 on an existing section hands saveData the
\* input tree with that section's question list replaced by q-1..q-n, none
\* completed, whatever the list was, and the chapter's progress recomputed;
\* nothing else changes.
C13_GenReplacesList ==
    (last.op = "genQuestions" /\ ~last.args.count.nan /\ last.args.count.n >= 0) =>
        LET a == last.args
        IN  \A i \in SubjectAt(subjects, a.sId) : \A j \in ChapterAt(subjects, i, a.cId) :
              a.secId \in DOMAIN subjects[i].chapters[j].sections =>
                /\ last.res.out = "save"
                /\ LET made == last.res.tree[i].chapters[j]
                       qs   == made.sections[a.secId].questions
                   IN  /\ Len(qs) = a.count.n
                       /\ \A k \in 1..Len(qs) :
                             qs[k] = [id |-> "q-" \o ToString(k), completed |-> FALSE]
                       /\ made.progress = calculateProgress(made)
                       /\ last.res.tree =
                             [subjects EXCEPT
                                ![i].chapters[j].sections[a.secId].questions = qs,
                                ![i].chapters[j].progress = made.progress]

\* C13 witness: a list that held a completed question was replaced by two new
\* questions, and the chapter's progress fell.
C13_Witness ==
    /\ last.op = "genQuestions"
    /\ last.res.out = "save"
    /\ ~last.args.count.nan
    /\ last.args.count.n = 2
    /\ \E i \in SubjectAt(subjects, last.args.sId) :
       \E j \in ChapterAt(subjects, i, last.args.cId) :
          /\ last.args.secId \in DOMAIN subjects[i].chapters[j].sections
          /\ \E k \in 1..Len(subjects[i].chapters[j].sections[last.args.secId].questions) :
                subjects[i].chapters[j].sections[last.args.secId].questions[k].completed
          /\ last.res.tree[i].chapters[j].progress < subjects[i].chapters[j].progress

\* C13 witness of the reset: count 0 emptied a list that held a question.
C13_ResetWitness ==
    /\ last.op = "genQuestions"
    /\ last.res.out = "save"
    /\ ~last.args.count.nan
    /\ last.args.count.n = 0
    /\ \E i \in SubjectAt(subjects, last.args.sId) :
       \E j \in ChapterAt(subjects, i, last.args.cId) :
          /\ last.args.secId \in DOMAIN subjects[i].chapters[j].sections
          /\ subjects[i].chapters[j].sections[last.args.secId].questions # <<>>
          /\ last.res.tree[i].chapters[j].sections[last.args.secId].questions = <<>>

\* the section is exercise-kind
ExerciseKind(sec) == "type" \in DOMAIN sec /\ sec.type = "exercise"

\* tree `made` is tree `was` with one sub-exercise more in section secId of chapter
\* j of subject i: a new key and id, the name given, n questions q-1..q-n, none
\* completed; the chapter's progress recomputed; nothing else changed
OneSubExerciseMore(was, made, i, j, secId, name, n) ==
    LET olds == was[i].chapters[j].sections[secId].subExercises
        news == made[i].chapters[j].sections[secId].subExercises
    IN  /\ Cardinality((DOMAIN news) \ (DOMAIN olds)) = 1
        /\ \A e \in DOMAIN olds : e \in DOMAIN news /\ news[e] = olds[e]
        /\ \A e \in (DOMAIN news) \ (DOMAIN olds) :
              /\ news[e].id = e
              /\ news[e].name = name
              /\ news[e].questions =
                    [k \in 1..n |-> [id |-> "q-" \o ToString(k), completed |-> FALSE]]
        /\ made[i].chapters[j].progress = calculateProgress(made[i].chapters[j])
        /\ made = [was EXCEPT
                     ![i].chapters[j].sections[secId].subExercises = news,
                     ![i].chapters[j].progress = made[i].chapters[j].progress]

\* C14 (first half): addSubExercise on an exercise-kind section, with a count that
\* is a numeral, adds exactly one sub-exercise, with a new id and that many
\* incomplete questions, and recomputes the chapter's progress.
C14_AddsOneSubExercise ==
    (last.op = "addSubExercise" /\ ~ParseInt(last.args.count).nan
       /\ ParseInt(last.args.count).n >= 0) =>
        LET a == last.args
        IN  \A i \in SubjectAt(subjects, a.sId) : \A j \in ChapterAt(subjects, i, a.cId) :
              (/\ a.secId \in DOMAIN subjects[i].chapters[j].sections
               /\ ExerciseKind(subjects[i].chapters[j].sections[a.secId])) =>
                  /\ last.res.out = "save"
                  /\ OneSubExerciseMore(subjects, last.res.tree, i, j, a.secId, a.name,
                                        ParseInt(a.count).n)

\* C14: addSubExercise adds a sub-exercise only to an exercise-kind section: there
\* it adds exactly one, and on a section of another kind it adds none and hands
\* saveData the tree unchanged.
C14_OnlyExerciseSections ==
    /\ C14_AddsOneSubExercise
    /\ last.op = "addSubExercise" =>
          LET a == last.args
          IN  \A i \in SubjectAt(subjects, a.sId) : \A j \in ChapterAt(subjects, i, a.cId) :
                (/\ a.secId \in DOMAIN subjects[i].chapters[j].sections
                 /\ ~ExerciseKind(subjects[i].chapters[j].sections[a.secId])) =>
                    (last.res.out = "save" => last.res.tree = subjects)

\* the name is empty or holds nothing but spaces
Blank(name) == \A k \in 1..Len(name) : name[k] = " "

\* the name or label the step just taken was given
NameGiven ==
    IF last.op = "addGenericSection" THEN last.args.label ELSE last.args.name

\* C15: addSubject, addChapter, addGenericSection and addSubExercise with a name
\* that is empty or only spaces change nothing: if they call saveData at all, it
\* is with the tree unchanged.
C15_BlankNameIsNoOp ==
    (/\ last.op \in {"addSubject", "addChapter", "addGenericSection", "addSubExercise"}
     /\ Blank(NameGiven))
        => (last.res.out = "save" => last.res.tree = subjects)

\* the subject id of the step just taken names no subject or, for the handlers
\* that address a chapter, the chapter id names no chapter of that subject
PathMissed ==
    \/ SubjectAt(subjects, last.args.sId) = {}
    \/ /\ last.op # "addChapter"
       /\ \A i \in SubjectAt(subjects, last.args.sId) :
             ChapterAt(subjects, i, last.args.cId) = {}

\* C16: addChapter, toggleQuestion, genQuestions, deleteChapter, addGenericSection
\* and addSubExercise with a subject id that names no subject, or a chapter id
\* that names no chapter of the subject, hand saveData the input tree unchanged.
C16_MissedPathIsNoOp ==
    (/\ last.op \in MutationOps \ {"addSubject"}
     /\ PathMissed)
        => (last.res.out = "save" /\ last.res.tree = subjects)

\* C16 witness: the subject exists and the chapter id is that of a chapter of
\* another subject.
C16_Witness ==
    /\ last.op \in MutationOps \ {"addSubject", "addChapter"}
    /\ PathMissed
    /\ SubjectAt(subjects, last.args.sId) # {}
    /\ last.args.cId \in ChapterIds(subjects)
    /\ last.res.out = "save"

\* lists the documents can hold before any write of this session has landed
StoredAtStart == {<<>>, SeedTree}

C18_OneWritePerRequest ==
    [][/\ (nMut' = nMut + 1 /\ user # NoUser /\ last'.res.out = "save")
            => writes' = Append(writes, [uid |-> user, data |-> [list |-> last'.res.tree]])
       /\ (nMut' = nMut + 1 /\ (user = NoUser \/ last'.res.out # "save"))
            => writes' = writes
       /\ nMut' = nMut
            => (writes' = writes \/ (writes # <<>> /\ writes' = Tail(writes)))]_vars

\* C18 witness: a request has just dispatched its write while the write of the
\* request before it is still unresolved.
C18_Witness ==
    /\ Dispatched
    /\ Len(writes) = 2
    /\ writes[2].data.list = last.res.tree
    /\ writes[1] # writes[2]

\* C19: addSubject with a name that is empty or only spaces returns without a
\* write and the tree stays as it is; with any other name it hands saveData the
\* input tree with one subject more at the end: that name, an id no subject has,
\* no chapters.
C19_AddSubjectAppends ==
    [][(nMut' = nMut + 1 /\ last'.op = "addSubject") =>
          IF Blank(last'.args.name)
          THEN /\ last'.res.out = "return"
               /\ writes' = writes
               /\ subjects' = subjects
          ELSE /\ last'.res.out = "save"
               /\ LET made == last'.res.tree
                      new  == made[Len(made)]
                  IN  /\ Len(made) = Len(subjects) + 1
                      /\ SubSeq(made, 1, Len(subjects)) = subjects
                      /\ new.name = last'.args.name
                      /\ new.chapters = <<>>
                      /\ new.id \notin SubjectIds(subjects)
                      /\ DOMAIN new = {"id", "name", "chapters"}]_vars

\* C19 witness: a subject was appended to a tree that held one already, and the
\* write of the longer tree is pending.
C19_Witness ==
    /\ last.op = "addSubject"
    /\ Dispatched
    /\ subjects # <<>>
    /\ Len(last.res.tree) = Len(subjects) + 1
    /\ writes # <<>>
    /\ writes[Len(writes)].data.list = last.res.tree

\* chapter ch is new to the tree and holds one new section for each kind of
\* `kinds`: an exercise kind with an empty sub-exercise map, any other kind with
\* an empty question list
FreshChapter(tree, ch, name, kinds) ==
    /\ ch.id \notin ChapterIds(tree)
    /\ ch.name = name
    /\ ch.progress = 0
    /\ Cardinality(DOMAIN ch.sections) = Len(kinds)
    /\ \A key \in DOMAIN ch.sections :
          /\ key \notin SectionIds(tree)
          /\ ch.sections[key].id = key
    /\ \A k \in 1..Len(kinds) :
          \E key \in DOMAIN ch.sections :
             LET sec == ch.sections[key]
             IN  /\ sec.label = kinds[k]
                 /\ ExerciseKind(sec) <=> kinds[k] = "EXERCISE"
                 /\ IF kinds[k] = "EXERCISE"
                    THEN "subExercises" \in DOMAIN sec /\ DOMAIN sec.subExercises = {}
                    ELSE "questions" \in DOMAIN sec /\ Len(sec.questions) = 0

\* C20: addChapter on an existing subject hands saveData the input tree with one
\* chapter more at the end of that subject's chapters: progress 0, one section
\* with a new id of its own for each requested kind, a sub-exercise map without
\* entries for an exercise kind and a question list without entries for any
\* other; no other subject and no earlier chapter changes.
C20_AddChapterAppends ==
    last.op = "addChapter" =>
        \A i \in SubjectAt(subjects, last.args.sId) :
            /\ last.res.out = "save"
            /\ LET olds == subjects[i].chapters
                   news == last.res.tree[i].chapters
               IN  /\ Len(news) = Len(olds) + 1
                   /\ last.res.tree = [subjects EXCEPT ![i].chapters = Append(olds, news[Len(news)])]
                   /\ FreshChapter(subjects, news[Len(news)], last.args.name, last.args.kinds)

\* C20 witness: a chapter with an examples and an exercise section was appended
\* to a subject that held a chapter already.
C20_Witness ==
    /\ last.op = "addChapter"
    /\ last.res.out = "save"
    /\ Len(last.args.kinds) = 2
    /\ \E i \in SubjectAt(subjects, last.args.sId) :
          /\ subjects[i].chapters # <<>>
          /\ Len(last.res.tree[i].chapters) = Len(subjects[i].chapters) + 1

----------------------------------------------------------------------------

\* `made` is `was` without its j-th element
WithoutAt(was, made, j) ==
    /\ Len(made) = Len(was) - 1
    /\ \A k \in 1..Len(made) : made[k] = was[IF k < j THEN k ELSE k + 1]

\* C21: deleteChapter with the id of a subject and the id of one of its
\* chapters hands saveData a tree in which that subject's chapter list is the
\* old list without that chapter, the other chapters as they were and in their
\* order, the subject's other fields and every other subject as they were.
C21_DeleteRemovesOneChapter ==
    (/\ last.op = "deleteChapter"
     /\ ~PathMissed)
        => /\ last.res.out = "save"
           /\ Len(last.res.tree) = Len(subjects)
           /\ \A i \in 1..Len(subjects) :
                 IF subjects[i].id # last.args.sId
                 THEN last.res.tree[i] = subjects[i]
                 ELSE /\ DOMAIN last.res.tree[i] = DOMAIN subjects[i]
                      /\ \A f \in DOMAIN subjects[i] \ {"chapters"} :
                            last.res.tree[i][f] = subjects[i][f]
                      /\ \E j \in ChapterAt(subjects, i, last.args.cId) :
                            WithoutAt(subjects[i].chapters,
                                      last.res.tree[i].chapters, j)

\* C21 witness: a chapter was deleted from a subject that keeps another one.
C21_Witness ==
    /\ last.op = "deleteChapter"
    /\ ~PathMissed
    /\ last.res.out = "save"
    /\ \E i \in SubjectAt(subjects, last.args.sId) :
          /\ Len(subjects[i].chapters) = 2
          /\ Len(last.res.tree[i].chapters) = 1

\* C21 second witness: a chapter was deleted while another subject exists.
C21_OtherSubjectWitness ==
    /\ last.op = "deleteChapter"
    /\ ~PathMissed
    /\ last.res.out = "save"
    /\ Len(subjects) = 2

----------------------------------------------------------------------------

\* C22: after addSubject, addChapter with the one kind EXERCISE, addSubExercise
\* with count n > 0 and toggleQuestion on k distinct questions of the
\* sub-exercise, each applied to the result of the one before, the chapter's
\* progress is round(100 * k / n).
C22_ProgressAfterToggles ==
    run.step = "subEx" =>
        ProgressAt(run.tree, run) = {ClaimRound(Cardinality(run.done), run.n)}

\* C22, the instance the claim names: 2 of 4 questions toggled give 50.
C22_TwoOfFourIsFifty ==
    (run.step = "subEx" /\ run.n = 4 /\ Cardinality(run.done) = 2) =>
        ProgressAt(run.tree, run) = {50}

\* C22, where the value is not a tie of the division: the progress is the
\* rounded ratio whenever 200 * k is not an odd multiple of n.
C22_ProgressOffTies ==
    (run.step = "subEx" /\ (200 * Cardinality(run.done)) % (2 * run.n) # run.n) =>
        ProgressAt(run.tree, run) = {ClaimRound(Cardinality(run.done), run.n)}

\* the run reached 2 of 4 questions toggled
C22_TwoOfFourReached ==
    run.step = "subEx" /\ run.n = 4 /\ Cardinality(run.done) = 2

----------------------------------------------------------------------------

\* chapters c and d have the same sections and the same question lists, and
\* every question completed in c is completed in d
SameButMoreDone(c, d) ==
    /\ Stored(c) = Stored(d)
    /\ \A x \in Stored(c) : QuestionOf(c, x).completed => QuestionOf(d, x).completed
    /\ LET open(ch) == [k \in DOMAIN ch.sections |->
                          LET sec == ch.sections[k]
                              off(qs) == [i \in 1..Len(qs) |-> Put(qs[i], "completed", FALSE)]
                              own == IF "questions" \in DOMAIN sec
                                     THEN Put(sec, "questions", off(sec.questions)) ELSE sec
                          IN  IF "subExercises" \in DOMAIN sec
                              THEN Put(own, "subExercises",
                                       [e \in DOMAIN sec.subExercises |->
                                          Put(sec.subExercises[e], "questions",
                                              off(sec.subExercises[e].questions))])
                              ELSE own]
       IN  Put(c, "sections", open(c)) = Put(d, "sections", open(d))

\* C23: of two chapters with the same sections and question lists, the second
\* with every question completed that is completed in the first,
\* calculateProgress of the second is at least calculateProgress of the first.
C23_ProgressIsMonotone ==
    (/\ last.op = "calculateMore"
     /\ SameButMoreDone(last.chapter, calcIn))
        => calcOut >= last.out

\* C23 witness: a counted question more is completed and the progress rose.
C23_Witness ==
    /\ last.op = "calculateMore"
    /\ SameButMoreDone(last.chapter, calcIn)
    /\ last.chapter # calcIn
    /\ calcOut > last.out
    /\ last.out > 0

\* C23 second witness: a question that is not counted is completed and the
\* progress stayed.
C23_UncountedWitness ==
    /\ last.op = "calculateMore"
    /\ SameButMoreDone(last.chapter, calcIn)
    /\ last.chapter # calcIn
    /\ calcOut = last.out

----------------------------------------------------------------------------

\* C24: a write dispatched to B's document carries no subject loaded under A:
\* B's document starts absent or empty and ids are made afresh, so a tree
\* built from B's snapshots and B's requests holds no subject of the tree
\* stored for A.  Stated of the requests issued after the Data Sync effect
\* has re-run for B and every snapshot was delivered.
C24_NoSubjectOfAWrittenToB ==
    (/\ Dispatched
     /\ last.user = "B"
     /\ ~effectPending
     /\ \A s \in subs : s.uid = "B" /\ s.queue = <<>>)
        => SubjectIds(last.res.tree) \cap SubjectIds(SeedTree) = {}

\* C24, where B's document exists: its snapshot replaces the tree before the
\* request, and no subject of A is written.
C24_ExistingDocumentReplacesTree ==
    (/\ Dispatched
     /\ last.user = "B"
     /\ ~effectPending
     /\ docs["B"] = Doc([list |-> <<>>])
     /\ \A s \in subs : s.uid = "B" /\ s.queue = <<>>)
        => SubjectIds(last.res.tree) \cap SubjectIds(SeedTree) = {}

----------------------------------------------------------------------------

\* the subjects the first and the second addSubject of a session make
FirstMade  == Uuid(SeedUsed + 1)
SecondMade == Uuid(SeedUsed + 2)

\* a second addSubject was just issued; the write of the first has landed and
\* its snapshot has not been delivered
SecondIssuedEarly ==
    /\ last.op = "addSubject"
    /\ last.res.out = "save"
    /\ nMut = 2
    /\ nextId = SeedUsed + 2
    /\ Len(writes) = 1
    /\ FirstMade \in SubjectIds(docs["A"].data.list)
    /\ FirstMade \notin SubjectIds(subjects)
    /\ SecondMade \in SubjectIds(last.res.tree)

\* the same with the snapshot of the first delivered before the second
SecondIssuedLate ==
    /\ last.op = "addSubject"
    /\ last.res.out = "save"
    /\ nMut = 2
    /\ nextId = SeedUsed + 2
    /\ Len(writes) = 1
    /\ FirstMade \in SubjectIds(docs["A"].data.list)
    /\ FirstMade \in SubjectIds(subjects)
    /\ SecondMade \in SubjectIds(last.res.tree)

\* the write of the second has landed and every snapshot is delivered
BothSettled ==
    /\ Quiet
    /\ SecondMade \in SubjectIds(docs["A"].data.list)

BothKept ==
    /\ {FirstMade, SecondMade} \subseteq SubjectIds(docs["A"].data.list)
    /\ {FirstMade, SecondMade} \subseteq SubjectIds(subjects)

\* C25: when a second request (here a second addSubject) is issued before the
\* snapshot following the first was delivered, then once both writes have
\* landed and every snapshot is delivered the document and the tree hold what
\* both requests made.
C25_NoUpdateLost == [](SecondIssuedEarly => [](BothSettled => BothKept))

\* C25, the requests one after the other: the second issued after the snapshot
\* of the first was delivered, both subjects are kept.
C25_SequentialKeepsBoth == [](SecondIssuedLate => [](BothSettled => BothKept))

\* C25: two requests were issued one after the other, both writes are settled
\* and both subjects are kept
C25_SequentialReached == Quiet /\ nMut = 2 /\ BothKept

----------------------------------------------------------------------------

\* totalQs of calculateProgress: the questions it counts
CountedTotal(chapter) ==
    SumOver(LAMBDA k : SectionTotal(chapter.sections[k]), DOMAIN chapter.sections)

\* C26: in every tree the program holds in memory, calculateProgress counts
\* every stored question: for each chapter, the total it counts is the number
\* of question records stored under the chapter.
C26_EveryStoredQuestionCounted ==
    \A c \in Chapters(subjects) : CountedTotal(c) = Cardinality(Stored(c))

\* C26, the way the screens lead there: an exercise section with a
\* sub-exercise of no questions, whose questions view shows the Generate form,
\* holds questions of its own.
C26_GeneratedBesideEmptySubExercise ==
    \E c \in Chapters(subjects) : \E k \in DOMAIN c.sections :
        /\ IsExerciseBranch(c.sections[k])
        /\ \E e \in DOMAIN c.sections[k].subExercises :
              c.sections[k].subExercises[e].questions = <<>>
        /\ c.sections[k].questions # <<>>
        /\ CountedTotal(c) < Cardinality(Stored(c))

\* C26, the other shape: a section that is not of the exercise kind holds a
\* sub-exercise with questions.
C26_SubExerciseInPlainSection ==
    \E c \in Chapters(subjects) : \E k \in DOMAIN c.sections :
        /\ ~IsExerciseBranch(c.sections[k])
        /\ "subExercises" \in DOMAIN c.sections[k]
        /\ \E e \in DOMAIN c.sections[k].subExercises :
              c.sections[k].subExercises[e].questions # <<>>
        /\ CountedTotal(c) < Cardinality(Stored(c))

----------------------------------------------------------------------------

\* the in-memory tree is the `list` of A's stored document
TreeIsStored == docs["A"].exists /\ subjects = docs["A"].data.list

\* C27: with user A signed in and A's document existing, once no further
\* request is issued, and with every write resolved or rejected and every
\* snapshot delivered, the in-memory tree eventually equals the `list` of the
\* stored document and stays equal to it.
C27_TreeConvergesToDocument == <>[]TreeIsStored

\* C27 witness: after requests of the session the last snapshot was delivered,
\* it changed the tree, and the tree is the stored list.
C27_Witness ==
    /\ nMut = MaxMut
    /\ Quiet
    /\ last.op = "snapshot"
    /\ last.pre # subjects
    /\ TreeIsStored

----------------------------------------------------------------------------

\* C28: while `user` is null no write is dispatched: a request issued then
\* leaves the pending writes, the in-memory tree and every stored document as
\* they are, the tree being empty once the Data Sync effect has run; and no
\* other step taken then adds a write.
C28_IdleRequestChangesNothing ==
    [][/\ (nMut' = nMut + 1 /\ user = NoUser)
            => /\ writes' = writes
               /\ subjects' = subjects
               /\ docs' = docs
               /\ ~effectPending => subjects' = <<>>
       /\ user = NoUser => Len(writes') <= Len(writes)]_vars

\* C28 witness: with no user, after the effect has run, addSubject with a name
\* reached saveData and nothing was dispatched.
C28_Witness ==
    /\ last.op = "addSubject"
    /\ last.user = NoUser
    /\ last.res.out = "save"
    /\ user = NoUser
    /\ ~effectPending
    /\ nAuth > 0
    /\ subjects = <<>>
    /\ writes = <<>>

\* C28, between the sign-out and the effect's next run: a request was issued
\* with no user while the tree of the session before is still in memory;
\* nothing was dispatched.
C28_BeforeEffectWitness ==
    /\ last.op \in MutationOps
    /\ last.user = NoUser
    /\ last.res.out = "save"
    /\ user = NoUser
    /\ effectPending
    /\ subjects # <<>>
    /\ writes = <<>>

====
